---- MODULE Spec2Model ----
(***************************************************************************)
(* podlet: conversion of a compose document into Quadlet files             *)
(* (src/cli/compose.rs) or into a Kubernetes pod file (src/cli/k8s.rs).    *)
(*                                                                         *)
(* One conversion call is modelled as a run of the state machine: the      *)
(* document and the flags are chosen in Init, every check and every        *)
(* iteration of the iterator chain is one step, and `result` is what the   *)
(* call returns.  Strings are sequences of tokens, so that format! and     *)
(* push_str are concatenations.  The `install` section is cloned into the  *)
(* files beside `unit` and never read, it is left out.                     *)
(***************************************************************************)
EXTENDS Integers, Sequences, FiniteSets, TLC

VARIABLES
    compose,            \* the deserialized compose_spec::Compose
    pod,                \* Compose::pod (--pod)
    kube,               \* Compose::kube (--kube)
    unit,               \* the Option<Unit> given to try_into_files
    pc,                 \* position in the call
    idx,                \* position of the running iterator
    volume_has_options, \* parts_try_into_files: the map built from `volumes`
    pod_ports,          \* parts_try_into_files: pod_ports
    files,              \* the Vec<File> being collected
    spec,               \* k8s: the containers of the PodSpec being folded
    claims,             \* k8s: persistent_volume_claims being collected
    resolved,           \* services handed to the resolver / folded so far
    converted,          \* networks and volumes handed to a converter so far
    result              \* what the call returned, once pc = "done"

vars == <<compose, pod, kube, unit, pc, idx, volume_has_options, pod_ports,
          files, spec, claims, resolved, converted, result>>

----------------------------------------------------------------------------
(* Bounds of the model *)

MaxServices == 2

----------------------------------------------------------------------------
(* Values *)

None == <<"None">>

web == <<"web">>
db == <<"db">>
app == <<"app">>
data == <<"data">>
cache == <<"cache">>

\* Identifiers of the services, in document order (IndexMap keys are unique).
ServiceIds == <<web, db, app, <<"app", "-", "web">> >>

Range(s) == {s[i] : i \in 1..Len(s)}

\* Option<Resource<T>> of a top-level network or volume.
ResNone == [tag |-> "none", empty |-> TRUE, ok |-> TRUE]
ResExternal == [tag |-> "external", empty |-> TRUE, ok |-> TRUE]
ResCompose(empty, ok) == [tag |-> "compose", empty |-> empty, ok |-> ok]

\* container::volume::Source of a mount (Option<Source>).
NamedVolume(n) == [kind |-> "NamedVolume", source |-> n]
HostPath == [kind |-> "HostPath", source |-> <<"/", "srv">>]

NoUnit == [some |-> FALSE, deps |-> <<>>]
SomeUnit(deps) == [some |-> TRUE, deps |-> deps]

NoErr == [kind |-> "none", what |-> "none", id |-> None, target |-> None]

\* The error taxonomy of the messages the code bails with.
ErrorKind(what) ==
    CASE what \in {"include", "configs", "secrets", "extensions", "networks",
                   "external network", "external volume"} -> "UnsupportedFeature"
      [] what = "name" -> "MissingRequiredField"
      [] what = "dependency" -> "ConflictingDependency"
      [] OTHER -> "ConversionFailure"

Error(what, id, target) ==
    [kind |-> ErrorKind(what), what |-> what, id |-> id, target |-> target]

Ok(fs) == [ok |-> TRUE, files |-> fs, err |-> NoErr]
Err(e) == [ok |-> FALSE, files |-> <<>>, err |-> e]
Pending == [ok |-> FALSE, files |-> <<>>, err |-> NoErr]

\* quadlet::File / k8s::File, with the fields of its resource.
File(name, kind, u) ==
    [name |-> name, kind |-> kind, unit |-> u, pod |-> None,
     publish_port |-> <<>>, volume |-> <<>>, containers |-> <<>>, claims |-> <<>>]

----------------------------------------------------------------------------
(* The documents and arguments a call is given *)

\* compose_spec::service::Dependency::default(), what into_long gives a short entry.
DefaultDependency(ident) ==
    [ident |-> ident, condition |-> "service_started", required |-> TRUE,
     restart |-> FALSE]

Service(depends_on, publish_port, volume, ok) ==
    [depends_on |-> depends_on, publish_port |-> publish_port,
     volume |-> volume, ok |-> ok]

Entry(id, value) == [id |-> id, value |-> value]

\* Services whose dependencies and published ports vary.
PodServices ==
    {Service(d, p, <<>>, ok) :
        d \in {<<>>, <<web>>}, p \in {<<>>, <<80>>, <<443>>}, ok \in BOOLEAN}

\* Services whose volume mounts vary.
VolumeServices ==
    {Service(<<>>, <<>>, v, ok) :
        v \in {<<>>, <<NamedVolume(data)>>,
               <<HostPath, NamedVolume(cache), NamedVolume(data)>>},
        ok \in BOOLEAN}

\* The ordered maps of at most MaxServices services drawn from S, in which no
\* service depends on itself.
ServiceMaps(S) ==
    UNION {{[i \in 1..n |-> Entry(ServiceIds[i], f[i])] :
               f \in {g \in [1..n -> S] :
                         \A i \in 1..n : ServiceIds[i] \notin Range(g[i].depends_on)}} :
           n \in 0..MaxServices}

NetworkMaps ==
    {<<>>,
     <<Entry(web, ResNone), Entry(app, ResCompose(FALSE, TRUE))>>,
     <<Entry(web, ResCompose(FALSE, FALSE))>>,
     <<Entry(db, ResCompose(FALSE, TRUE)), Entry(web, ResExternal)>>,
     <<Entry(app, ResExternal), Entry(web, ResExternal)>>}

VolumeMaps ==
    {<<>>,
     <<Entry(data, ResNone)>>,
     <<Entry(data, ResCompose(TRUE, TRUE))>>,
     <<Entry(data, ResCompose(FALSE, TRUE))>>,
     <<Entry(data, ResCompose(FALSE, FALSE))>>,
     <<Entry(web, ResCompose(FALSE, TRUE)), Entry(data, ResExternal)>>,
     <<Entry(cache, ResExternal), Entry(data, ResExternal)>>}

SecretMaps ==
    {<<>>,
     <<Entry(<<"key">>, ResExternal)>>,
     <<Entry(<<"key">>, ResExternal), Entry(<<"token">>, ResCompose(FALSE, TRUE))>>}

Document(name, include, configs, secrets, extensions, services, networks, volumes) ==
    [name |-> name, include |-> include, configs |-> configs,
     secrets |-> secrets, extensions |-> extensions, services |-> services,
     networks |-> networks, volumes |-> volumes]

Names == {None, app}

\* Documents whose unsupported top-level features vary.
ValidationDocs ==
    {Document(n, i, c, s, x, sv, nw, vl) :
        n \in Names,
        i \in {<<>>, <<"base.yaml">>},
        c \in {<<>>, <<"cfg">>},
        s \in SecretMaps,
        x \in {<<>>, <<"x-meta">>},
        sv \in {<<>>, <<Entry(web, Service(<<>>, <<>>, <<>>, TRUE))>>},
        nw \in {<<>>, <<Entry(web, ResNone)>>, <<Entry(web, ResExternal)>>},
        vl \in {<<>>, <<Entry(data, ResCompose(FALSE, TRUE))>>,
                <<Entry(data, ResExternal)>>}}

\* Supported documents whose services, dependencies, ports and networks vary.
PodDocs ==
    {Document(n, <<>>, <<>>, <<>>, <<>>, sv, nw, <<>>) :
        n \in Names, sv \in ServiceMaps(PodServices), nw \in NetworkMaps}

\* Supported documents whose volumes and volume mounts vary.
VolumeDocs ==
    {Document(n, <<>>, <<>>, <<>>, <<>>, sv, <<>>, vl) :
        n \in Names, sv \in ServiceMaps(VolumeServices), vl \in VolumeMaps}

Documents == ValidationDocs \cup PodDocs \cup VolumeDocs

\* The Unit given on the command line: none, an empty one, one that already
\* records a dependency on `web`.
Units == {NoUnit, SomeUnit(<<>>), SomeUnit(<<DefaultDependency(web)>>)}

----------------------------------------------------------------------------
(* compose.rs: the pure parts *)

\* DependsOn::into_long: every short entry gets the default Dependency.
IntoLong(depends_on) ==
    [i \in 1..Len(depends_on) |-> DefaultDependency(depends_on[i])]

\* Unit::add_dependency(&ident, dependency): the dependency is recorded under
\* the identifier it is given; a target already recorded is an error.
AddDependency(u, ident, dependency) ==
    IF \E i \in 1..Len(u.deps) : u.deps[i].ident = ident
    THEN [ok |-> FALSE, unit |-> u]
    ELSE [ok |-> TRUE, unit |-> SomeUnit(Append(u.deps, dependency))]

\* The loop over `dependencies`: stops at the first failing addition.
RECURSIVE AddDependencies(_, _, _)
AddDependencies(u, dependencies, i) ==
    IF i > Len(dependencies)
    THEN [ok |-> TRUE, unit |-> u, target |-> None]
    ELSE LET r == AddDependency(u, dependencies[i].ident, dependencies[i])
         IN  IF r.ok
             THEN AddDependencies(r.unit, dependencies, i + 1)
             ELSE [ok |-> FALSE, unit |-> u, target |-> dependencies[i].ident]

\* Container::try_from(service).map(quadlet::Container::from): the field
\* mapping fails or gives the container with the service's ports and mounts.
ContainerTryFrom(service) ==
    [ok |-> service.ok, publish_port |-> service.publish_port,
     volume |-> service.volume]

\* Mutant: is_some in place of is_some_and, an empty option set counts.
HasOptionsAnyCompose(volume) == volume.tag = "compose"

\* volume.as_ref().and_then(Resource::as_compose).is_some_and(|v| !v.is_empty())
HasOptions(volume) == volume.tag = "compose" /\ ~volume.empty

\* The map from volume identifiers to whether the volume has options.
VolumeHasOptions(volumes) ==
    [name \in {volumes[i].id : i \in 1..Len(volumes)} |->
        \E i \in 1..Len(volumes) :
            volumes[i].id = name /\ HasOptions(volumes[i].value)]

\* Mutant: a volume that is not in the map counts as having options.
LookupDefaultTrue(vho, source) == IF source \in DOMAIN vho THEN vho[source] ELSE TRUE

\* volume_has_options.get(source).copied().unwrap_or_default()
Lookup(vho, source) == IF source \in DOMAIN vho THEN vho[source] ELSE FALSE

\* The rewrite of one mount: `.volume` is pushed onto a named volume's source
\* when the volume has options.
LinkVolume(mount, vho) ==
    IF mount.kind = "NamedVolume" /\ Lookup(vho, mount.source)
    THEN [mount EXCEPT !.source = @ \o <<".volume">>]
    ELSE mount

LinkVolumes(volume, vho) == [i \in 1..Len(volume) |-> LinkVolume(volume[i], vho)]

\* Mutant: the Unit is inserted before the dependencies are looked at.
ServiceUnitAlwaysInserted(u, dependencies) ==
    AddDependencies(IF u.some THEN u ELSE SomeUnit(<<>>), dependencies, 1)

\* The Option<Unit> of a service's file: a Unit is inserted when there is none
\* and the service has dependencies.
ServiceUnit(u, dependencies) ==
    IF dependencies = <<>>
    THEN [ok |-> TRUE, unit |-> u, target |-> None]
    ELSE AddDependencies(IF u.some THEN u ELSE SomeUnit(<<>>), dependencies, 1)

ServiceTryIntoQuadletFile(service, name, u, vho) ==
    LET dependencies == IntoLong(service.depends_on)
        su == ServiceUnit(u, dependencies)
        container == ContainerTryFrom(service)
    IN  IF ~su.ok THEN Err(Error("dependency", name, su.target))
        ELSE IF ~container.ok THEN Err(Error("service", name, None))
        ELSE Ok(<<[File(name, "container", su.unit) EXCEPT
                     !.publish_port = container.publish_port,
                     !.volume = LinkVolumes(container.volume, vho)]>>)

\* Mutant: the file keeps only the pod's prefix.
PodPrefixOnly(pod_name, name) == pod_name \o <<"-">>

\* format!("{pod_name}-{name}") and format!("{pod_name}.pod")
PodPrefixed(pod_name, name) == pod_name \o <<"-">> \o name
PodReference(pod_name) == pod_name \o <<".pod">>

\* Mutant: the pod reference is set, the file keeps its name.
PodWrapKeepsName(pod_name, file) ==
    IF pod_name = None THEN file
    ELSE [file EXCEPT !.publish_port = <<>>, !.pod = PodReference(pod_name)]

\* The `if let (Some(pod_name), ...)` of the closure over the services.
PodWrap(pod_name, file) ==
    IF pod_name = None THEN file
    ELSE [file EXCEPT !.name = PodPrefixed(pod_name, @),
                      !.publish_port = <<>>,
                      !.pod = PodReference(pod_name)]

\* Mutant: the container's ports are put before those collected so far.
PrependPodPorts(pod_name, ports, file) ==
    IF pod_name = None THEN ports ELSE file.publish_port \o ports

\* pod_ports.extend(mem::take(&mut container.publish_port))
ExtendPodPorts(pod_name, ports, file) ==
    IF pod_name = None THEN ports ELSE ports \o file.publish_port

\* Mutant: an external network is taken as a default network.
NetworkExternalAsDefault(name, network, u) ==
    IF network.tag = "compose" /\ ~network.ok
    THEN Err(Error("network", name, None))
    ELSE Ok(<<File(name, "network", u)>>)

\* One item of networks_try_into_quadlet_files.
NetworkTryIntoQuadletFile(name, network, u) ==
    IF network.tag = "external" THEN Err(Error("external network", name, None))
    ELSE IF network.tag = "compose" /\ ~network.ok
         THEN Err(Error("network", name, None))
         ELSE Ok(<<File(name, "network", u)>>)

\* One item of volumes_try_into_quadlet_files; a volume without options is
\* filtered out (Ok with no file).
VolumeTryIntoQuadletFile(name, volume, u) ==
    CASE volume.tag = "none" -> Ok(<<>>)
      [] volume.tag = "external" -> Err(Error("external volume", name, None))
      [] OTHER -> IF volume.empty THEN Ok(<<>>)
                  ELSE IF ~volume.ok THEN Err(Error("volume", name, None))
                  ELSE Ok(<<File(name, "volume", u)>>)

\* Mutant: the error comes with the files collected before it.
CollectErrKeepsFiles(collected, r) ==
    [ok |-> FALSE, files |-> collected, err |-> r.err]

\* collect::<Result<Vec<File>, _>>()?: the first Err is returned and the files
\* collected so far are dropped.
CollectErr(collected, r) == Err(r.err)

\* The pod's file pushed last.
PodFile(name, u, ports) == [File(name, "pod", u) EXCEPT !.publish_port = ports]

IsExternal(resource) == resource.tag = "external"

\* Mutant: one external secret is enough (any in place of all).
ComposeCheckAnySecret(doc, wrap) ==
    IF wrap /\ doc.name = None THEN Error("name", None, None)
    ELSE IF doc.include # <<>> THEN Error("include", None, None)
    ELSE IF doc.configs # <<>> THEN Error("configs", None, None)
    ELSE IF /\ doc.secrets # <<>>
            /\ ~(\E i \in 1..Len(doc.secrets) : IsExternal(doc.secrets[i].value))
         THEN Error("secrets", None, None)
    ELSE IF doc.extensions # <<>> THEN Error("extensions", None, None)
    ELSE NoErr

\* Compose::try_into_files, the checks before parts_try_into_files: the first
\* one that fails, NoErr when all pass.
ComposeCheck(doc, wrap) ==
    IF wrap /\ doc.name = None THEN Error("name", None, None)
    ELSE IF doc.include # <<>> THEN Error("include", None, None)
    ELSE IF doc.configs # <<>> THEN Error("configs", None, None)
    ELSE IF ~(\A i \in 1..Len(doc.secrets) : IsExternal(doc.secrets[i].value))
         THEN Error("secrets", None, None)
    ELSE IF doc.extensions # <<>> THEN Error("extensions", None, None)
    ELSE NoErr

PodName(doc, wrap) == IF wrap THEN doc.name ELSE None

----------------------------------------------------------------------------
(* k8s.rs: the pure parts *)

\* Mutant: the check of `networks` is missing.
K8sCheckNoNetworks(doc) ==
    IF doc.include # <<>> THEN Error("include", None, None)
    ELSE IF doc.configs # <<>> THEN Error("configs", None, None)
    ELSE IF doc.secrets # <<>> THEN Error("secrets", None, None)
    ELSE IF doc.extensions # <<>> THEN Error("extensions", None, None)
    ELSE IF doc.name = None THEN Error("name", None, None)
    ELSE NoErr

\* File::try_from, the checks before the fold: the first one that fails.
K8sCheck(doc) ==
    IF doc.include # <<>> THEN Error("include", None, None)
    ELSE IF doc.networks # <<>> THEN Error("networks", None, None)
    ELSE IF doc.configs # <<>> THEN Error("configs", None, None)
    ELSE IF doc.secrets # <<>> THEN Error("secrets", None, None)
    ELSE IF doc.extensions # <<>> THEN Error("extensions", None, None)
    ELSE IF doc.name = None THEN Error("name", None, None)
    ELSE NoErr

\* Service::from_compose(&name, service).add_to_pod_spec(&mut spec): fails or
\* adds the service's container to the pod spec.
AddToPodSpec(name, service, containers) ==
    IF service.ok THEN Ok(Append(containers, name))
    ELSE Err(Error("service", name, None))

\* One item of the filter_map over the volumes: only a compose volume with
\* options gives a persistent volume claim.
VolumeTryIntoClaim(name, volume) ==
    IF volume.tag = "compose" /\ ~volume.empty
    THEN IF volume.ok THEN Ok(<<name>>) ELSE Err(Error("volume", name, None))
    ELSE Ok(<<>>)

\* The two files of Kubernetes mode: the .kube Quadlet file, and the YAML file
\* whose name has "-kube" pushed onto it.
KubeFiles(name, u, containers, pvcs) ==
    <<File(name, "kube", u),
      [File(name \o <<"-kube">>, "k8s", NoUnit) EXCEPT
          !.containers = containers, !.claims = pvcs]>>

----------------------------------------------------------------------------
(* The call, step by step *)

\* --pod and --kube conflict with each other.
Modes == {<<FALSE, FALSE>>, <<TRUE, FALSE>>, <<FALSE, TRUE>>}

Init ==
    /\ compose \in Documents
    /\ \E mode \in Modes : pod = mode[1] /\ kube = mode[2]
    /\ unit \in Units
    /\ pc = "start"
    /\ idx = 1
    /\ volume_has_options = <<>>
    /\ pod_ports = <<>>
    /\ files = <<>>
    /\ spec = <<>>
    /\ claims = <<>>
    /\ resolved = 0
    /\ converted = 0
    /\ result = Pending

Return(r) ==
    /\ result' = r
    /\ pc' = "done"

NumServices == Len(compose.services)
NumNetworks == Len(compose.networks)
NumVolumes == Len(compose.volumes)

\* Compose::try_into_files without --kube, up to the call of
\* parts_try_into_files and the map it builds first.
ComposeValidate ==
    /\ pc = "start"
    /\ ~kube
    /\ LET e == ComposeCheck(compose, pod)
       IN  IF e # NoErr
           THEN /\ Return(Err(e))
                /\ UNCHANGED volume_has_options
           ELSE /\ pc' = "parts"
                /\ volume_has_options' = VolumeHasOptions(compose.volumes)
                /\ UNCHANGED result
    /\ UNCHANGED <<compose, pod, kube, unit, idx, pod_ports, files, spec,
                   claims, resolved, converted>>

\* The closure over the services: one service resolved and, with a pod name,
\* wrapped.
ResolveService ==
    /\ pc = "parts"
    /\ idx <= NumServices
    /\ LET e == compose.services[idx]
           pod_name == PodName(compose, pod)
           r == ServiceTryIntoQuadletFile(e.value, e.id, unit, volume_has_options)
       IN  IF ~r.ok
           THEN /\ Return(CollectErr(files, r))
                /\ UNCHANGED <<idx, pod_ports, files>>
           ELSE /\ files' = Append(files, PodWrap(pod_name, r.files[1]))
                /\ pod_ports' = ExtendPodPorts(pod_name, pod_ports, r.files[1])
                /\ idx' = idx + 1
                /\ UNCHANGED <<pc, result>>
    /\ resolved' = resolved + 1
    /\ UNCHANGED <<compose, pod, kube, unit, volume_has_options, spec, claims,
                   converted>>

\* The next item of the chained network iterator.
ConvertNetwork ==
    /\ pc = "parts"
    /\ idx > NumServices
    /\ idx <= NumServices + NumNetworks
    /\ LET e == compose.networks[idx - NumServices]
           r == NetworkTryIntoQuadletFile(e.id, e.value, unit)
       IN  IF ~r.ok
           THEN /\ Return(CollectErr(files, r))
                /\ UNCHANGED <<idx, files>>
           ELSE /\ files' = files \o r.files
                /\ idx' = idx + 1
                /\ UNCHANGED <<pc, result>>
    /\ converted' = converted + 1
    /\ UNCHANGED <<compose, pod, kube, unit, volume_has_options, pod_ports,
                   spec, claims, resolved>>

\* The next item of the chained volume iterator.
ConvertVolume ==
    /\ pc = "parts"
    /\ idx > NumServices + NumNetworks
    /\ idx <= NumServices + NumNetworks + NumVolumes
    /\ LET e == compose.volumes[idx - NumServices - NumNetworks]
           r == VolumeTryIntoQuadletFile(e.id, e.value, unit)
       IN  IF ~r.ok
           THEN /\ Return(CollectErr(files, r))
                /\ UNCHANGED <<idx, files>>
           ELSE /\ files' = files \o r.files
                /\ idx' = idx + 1
                /\ UNCHANGED <<pc, result>>
    /\ converted' = converted + 1
    /\ UNCHANGED <<compose, pod, kube, unit, volume_has_options, pod_ports,
                   spec, claims, resolved>>

\* The collect has finished: the pod's file is pushed and the files returned.
PartsFinish ==
    /\ pc = "parts"
    /\ idx > NumServices + NumNetworks + NumVolumes
    /\ LET pod_name == PodName(compose, pod)
       IN  Return(Ok(IF pod_name = None THEN files
                     ELSE Append(files, PodFile(pod_name, unit, pod_ports))))
    /\ UNCHANGED <<compose, pod, kube, unit, idx, volume_has_options,
                   pod_ports, files, spec, claims, resolved, converted>>

\* Compose::try_into_files with --kube: the checks of k8s::File::try_from.
K8sValidate ==
    /\ pc = "start"
    /\ kube
    /\ LET e == K8sCheck(compose)
       IN  IF e # NoErr
           THEN Return(Err(e))
           ELSE /\ pc' = "k8s"
                /\ UNCHANGED result
    /\ UNCHANGED <<compose, pod, kube, unit, idx, volume_has_options,
                   pod_ports, files, spec, claims, resolved, converted>>

\* One step of the try_fold over the services.
K8sAddService ==
    /\ pc = "k8s"
    /\ idx <= NumServices
    /\ LET e == compose.services[idx]
           r == AddToPodSpec(e.id, e.value, spec)
       IN  IF ~r.ok
           THEN /\ Return(r)
                /\ UNCHANGED <<idx, spec>>
           ELSE /\ spec' = r.files
                /\ idx' = idx + 1
                /\ UNCHANGED <<pc, result>>
    /\ resolved' = resolved + 1
    /\ UNCHANGED <<compose, pod, kube, unit, volume_has_options, pod_ports,
                   files, claims, converted>>

\* One item of the filter_map over the volumes.
K8sVolumeClaim ==
    /\ pc = "k8s"
    /\ idx > NumServices
    /\ idx <= NumServices + NumVolumes
    /\ LET e == compose.volumes[idx - NumServices]
           r == VolumeTryIntoClaim(e.id, e.value)
       IN  IF ~r.ok
           THEN /\ Return(r)
                /\ UNCHANGED <<idx, claims>>
           ELSE /\ claims' = claims \o r.files
                /\ idx' = idx + 1
                /\ UNCHANGED <<pc, result>>
    /\ converted' = converted + 1
    /\ UNCHANGED <<compose, pod, kube, unit, volume_has_options, pod_ports,
                   files, spec, resolved>>

\* try_from returns the file; try_into_files adds the .kube Quadlet file.
KubeFinish ==
    /\ pc = "k8s"
    /\ idx > NumServices + NumVolumes
    /\ Return(Ok(KubeFiles(compose.name, unit, spec, claims)))
    /\ UNCHANGED <<compose, pod, kube, unit, idx, volume_has_options,
                   pod_ports, files, spec, claims, resolved, converted>>

Next ==
    \/ ComposeValidate
    \/ ResolveService
    \/ ConvertNetwork
    \/ ConvertVolume
    \/ PartsFinish
    \/ K8sValidate
    \/ K8sAddService
    \/ K8sVolumeClaim
    \/ KubeFinish

Spec == Init /\ [][Next]_vars

----------------------------------------------------------------------------
(* What the claims speak of *)

Done == pc = "done"
UnitFileMode == ~kube
Succeeded == Done /\ result.ok
Failed == Done /\ ~result.ok

ExternalErrors == {"external network", "external volume"}

\* Positions, in the chain services ++ networks ++ volumes, of the
\* externally-managed networks and volumes.
ExternalPositions ==
    {NumServices + i : i \in {j \in 1..NumNetworks :
                                 compose.networks[j].value.tag = "external"}}
    \cup {NumServices + NumNetworks + i :
             i \in {j \in 1..NumVolumes : compose.volumes[j].value.tag = "external"}}

ExternalIds ==
    {compose.networks[i].id : i \in {j \in 1..NumNetworks :
                                 compose.networks[j].value.tag = "external"}}
    \cup {compose.volumes[i].id :
             i \in {j \in 1..NumVolumes : compose.volumes[j].value.tag = "external"}}

FirstExternal == CHOOSE p \in ExternalPositions : \A q \in ExternalPositions : p <= q

ChainError(p) ==
    IF p <= NumServices + NumNetworks
    THEN Error("external network", compose.networks[p - NumServices].id, None)
    ELSE Error("external volume",
               compose.volumes[p - NumServices - NumNetworks].id, None)

(* C1, as stated: whenever a top-level network or volume is externally
   managed, the conversion fails and the error names that entry, in every
   output mode. *)
C1_AsStated ==
    Done => \A id \in ExternalIds :
                /\ ~result.ok
                /\ result.err.what \in ExternalErrors
                /\ result.err.id = id

(* C1, amended: in unit-file mode (plain or pod-wrapped) a document with an
   externally-managed network or volume always fails; an external-network or
   external-volume error names the first such entry of the iteration order
   (networks before volumes), and that is the error whenever the document
   checks pass and the iteration reaches that entry.  In Kubernetes mode no
   error names such an entry. *)
C1_ExternalRejected ==
    (Done /\ ExternalPositions # {}) =>
        IF UnitFileMode
        THEN /\ ~result.ok
             /\ result.err.what \in ExternalErrors
                    => result.err = ChainError(FirstExternal)
             /\ (ComposeCheck(compose, pod) = NoErr /\ idx = FirstExternal)
                    => result.err = ChainError(FirstExternal)
        ELSE result.err.what \notin ExternalErrors

C1_Witness ==
    /\ Failed /\ UnitFileMode /\ resolved >= 1 /\ converted >= 2
    /\ ExternalPositions # {}
    /\ result.err = ChainError(FirstExternal)

HasComposeSecret ==
    \E i \in 1..Len(compose.secrets) : compose.secrets[i].value.tag # "external"

SecretsError == Error("secrets", None, None)

\* The checks the code makes before it looks at `secrets`.
ChecksBeforeSecretsPass ==
    /\ compose.include = <<>>
    /\ compose.configs = <<>>
    /\ IF kube THEN compose.networks = <<>> ELSE ~(pod /\ compose.name = None)

(* C2, as stated: whenever `secrets` holds an entry that is not externally
   managed, the conversion fails with the UnsupportedFeature error about
   secrets, whatever the flags and the other fields are. *)
C2_AsStated ==
    (Done /\ HasComposeSecret) =>
        /\ ~result.ok
        /\ result.err.kind = "UnsupportedFeature"
        /\ result.err.what = "secrets"

(* C2, amended: whenever `secrets` holds an entry that is not externally
   managed, the conversion fails before any service, network or volume is
   processed; the error is the UnsupportedFeature error about secrets exactly
   when every earlier check passes (`include` and `configs` empty, and `name`
   present under --pod, `networks` empty under --kube), and otherwise it is the
   error of the first earlier check that fails. *)
C2_SecretsRejected ==
    (Done /\ HasComposeSecret) =>
        /\ ~result.ok
        /\ resolved = 0 /\ converted = 0
        /\ result.err.what \in {"name", "include", "networks", "configs", "secrets"}
        /\ ChecksBeforeSecretsPass <=> result.err = SecretsError
        /\ result.err = SecretsError => result.err.kind = "UnsupportedFeature"

C2_Witness ==
    /\ Failed /\ HasComposeSecret /\ pod /\ compose.services # <<>>
    /\ compose.extensions # <<>>
    /\ result.err = SecretsError

\* Whether `name` is declared at top level as a compose-managed volume with a
\* non-empty option set.
DeclaredWithOptions(name) ==
    \E i \in 1..NumVolumes :
        /\ compose.volumes[i].id = name
        /\ compose.volumes[i].value.tag = "compose"
        /\ ~compose.volumes[i].value.empty

\* The mounts of service i before and after the conversion.
MountsBefore(i) == compose.services[i].value.volume
MountsAfter(i) == result.files[i].volume

(* C3: in a successful unit-file conversion, a mount of a named volume N has
   the source N ++ ".volume" if and only if N is declared at top level as a
   compose-managed volume with a non-empty option set; every other mount
   (undeclared, declared without a value, declared with no options, not a
   named volume) is left as it was, and the suffix is added once. *)
C3_VolumeLinking ==
    (Succeeded /\ UnitFileMode) =>
        \A i \in 1..NumServices :
            /\ result.files[i].kind = "container"
            /\ Len(MountsAfter(i)) = Len(MountsBefore(i))
            /\ \A j \in 1..Len(MountsBefore(i)) :
                  LET before == MountsBefore(i)[j]
                      after == MountsAfter(i)[j]
                  IN  /\ after.kind = before.kind
                      /\ IF before.kind = "NamedVolume"
                            /\ DeclaredWithOptions(before.source)
                         THEN after.source = before.source \o <<".volume">>
                         ELSE after.source = before.source

C3_Witness ==
    /\ Succeeded /\ UnitFileMode /\ NumServices >= 1
    /\ MountsBefore(1) = <<HostPath, NamedVolume(cache), NamedVolume(data)>>
    /\ MountsAfter(1) =
          <<HostPath, NamedVolume(cache), NamedVolume(<<"data", ".volume">>)>>

RECURSIVE PortsOfServices(_)
\* The published ports of the first n services' containers, in document order.
PortsOfServices(n) ==
    IF n = 0 THEN <<>>
    ELSE PortsOfServices(n - 1) \o compose.services[n].value.publish_port

PodFiles == {i \in 1..Len(result.files) : result.files[i].kind = "pod"}

(* C4: with pod-wrapping and a successful conversion, the pod's published
   ports are the concatenation, in document service order, of the published
   ports the containers had before wrapping, and every container's own list
   of published ports is empty. *)
C4_PortAggregation ==
    (Succeeded /\ pod) =>
        /\ \A i \in PodFiles :
              result.files[i].publish_port = PortsOfServices(NumServices)
        /\ PodFiles # {}
        /\ \A i \in 1..Len(result.files) :
              result.files[i].kind = "container"
                  => result.files[i].publish_port = <<>>

C4_Witness ==
    /\ Succeeded /\ pod /\ NumServices = 2
    /\ compose.services[1].value.publish_port = <<443>>
    /\ compose.services[2].value.publish_port = <<80>>
    /\ result.files[Len(result.files)].publish_port = <<443, 80>>

(* C5: with pod-wrapping and a successful conversion, service S gives the
   container file named pod ++ "-" ++ S whose pod reference is pod ++ ".pod";
   exactly one pod file is produced, it is named as the document and it is the
   last file, after every container, network and volume file.  The names are
   given by the document alone. *)
C5_PodNaming ==
    (Succeeded /\ pod) =>
        /\ compose.name # None
        /\ Len(result.files) >= NumServices + 1
        /\ \A i \in 1..NumServices :
              /\ result.files[i].kind = "container"
              /\ result.files[i].name
                    = compose.name \o <<"-">> \o compose.services[i].id
              /\ result.files[i].pod = compose.name \o <<".pod">>
        /\ PodFiles = {Len(result.files)}
        /\ result.files[Len(result.files)].name = compose.name

C5_Witness ==
    /\ Succeeded /\ pod /\ NumServices = 2 /\ NumNetworks = 2
    /\ Len(result.files) = 5
    /\ result.files[2].name = <<"app", "-", "db">>
    /\ result.files[2].pod = <<"app", ".pod">>
    /\ result.files[3].kind = "network"
    /\ result.files[5].kind = "pod"
    /\ result.files[5].name = <<"app">>

\* The dependencies service i declares, and those its file records.
Dependencies(i) == IntoLong(compose.services[i].value.depends_on)
Recorded(i) ==
    {result.files[i].unit.deps[k].ident : k \in 1..Len(result.files[i].unit.deps)}

(* C6: with pod-wrapping, when service S depends on service T, the Unit of
   S's file records the dependency on the pod-prefixed name pod ++ "-" ++ T of
   T's file, so that every target recorded for a service is the name of a
   container file of the output. *)
C6_PodPrefixedDependency ==
    (Succeeded /\ pod) =>
        \A i \in 1..NumServices :
            \A k \in 1..Len(Dependencies(i)) :
                compose.name \o <<"-">> \o Dependencies(i)[k].ident \in Recorded(i)

ValidationFails ==
    IF kube THEN K8sCheck(compose) # NoErr ELSE ComposeCheck(compose, pod) # NoErr

ServiceFails(i) ==
    \/ ~compose.services[i].value.ok
    \/ UnitFileMode /\ ~ServiceUnit(unit, Dependencies(i)).ok

NetworkFails(i) ==
    LET network == compose.networks[i].value
    IN  UnitFileMode /\ (\/ network.tag = "external"
                         \/ network.tag = "compose" /\ ~network.ok)

VolumeFails(i) ==
    LET volume == compose.volumes[i].value
    IN  \/ UnitFileMode /\ volume.tag = "external"
        \/ volume.tag = "compose" /\ ~volume.empty /\ ~volume.ok

SomethingFails ==
    \/ ValidationFails
    \/ \E i \in 1..NumServices : ServiceFails(i)
    \/ \E i \in 1..NumNetworks : NetworkFails(i)
    \/ \E i \in 1..NumVolumes : VolumeFails(i)

HasFile(kind, name) ==
    \E k \in 1..Len(result.files) :
        result.files[k].kind = kind /\ result.files[k].name = name

OptionVolumes == {i \in 1..NumVolumes : DeclaredWithOptions(compose.volumes[i].id)}

\* The output holds an artifact for every service, every network and every
\* volume with options.
Complete ==
    IF kube
    THEN /\ Len(result.files) = 2
         /\ \A i \in 1..NumServices :
               compose.services[i].id \in Range(result.files[2].containers)
         /\ \A i \in OptionVolumes :
               compose.volumes[i].id \in Range(result.files[2].claims)
    ELSE /\ \A i \in 1..NumServices :
               HasFile("container",
                       IF pod THEN compose.name \o <<"-">> \o compose.services[i].id
                       ELSE compose.services[i].id)
         /\ \A i \in 1..NumNetworks : HasFile("network", compose.networks[i].id)
         /\ \A i \in OptionVolumes : HasFile("volume", compose.volumes[i].id)

(* C7: the conversion is all or nothing, in unit-file and in Kubernetes mode:
   if validation or the conversion of any service, network or volume fails,
   the call returns an error and no artifact; if nothing fails it returns an
   artifact for every service, every network and every volume with options. *)
C7_AllOrNothing ==
    Done =>
        IF SomethingFails
        THEN ~result.ok /\ result.files = <<>> /\ result.err # NoErr
        ELSE result.ok /\ Complete

C7_Witness ==
    /\ Failed /\ UnitFileMode /\ Len(files) >= 2 /\ result.files = <<>>
    /\ result.err.what = "volume"

SameName(i, j) == result.files[i].name = result.files[j].name

(* C8, as stated: in a successful conversion the name of every file is
   unique among all the files of the run, of any kind. *)
C8_AsStated ==
    Succeeded =>
        \A i, j \in 1..Len(result.files) : SameName(i, j) => i = j

(* C8, amended: in a successful conversion the name of every file is unique
   among the files of the same resource kind (container, network, volume,
   pod, kube); files of different kinds can share a name when a service, a
   network, a volume or the document's name share an identifier. *)
C8_UniquePerKind ==
    Succeeded =>
        \A i, j \in 1..Len(result.files) :
            (SameName(i, j) /\ result.files[i].kind = result.files[j].kind)
                => i = j

C8_Witness ==
    /\ Succeeded /\ pod /\ NumServices = 2
    /\ \E i, j \in 1..Len(result.files) :
          /\ i # j /\ SameName(i, j)
          /\ result.files[i].kind # result.files[j].kind

\* Every document-level check of the selected mode passes.
DocumentChecksPass ==
    /\ compose.include = <<>>
    /\ compose.configs = <<>>
    /\ compose.extensions = <<>>
    /\ \A i \in 1..Len(compose.secrets) : compose.secrets[i].value.tag = "external"
    /\ pod => compose.name # None
    /\ kube => /\ compose.networks = <<>>
               /\ compose.secrets = <<>>
               /\ compose.name # None

NothingProcessed ==
    /\ resolved = 0 /\ converted = 0
    /\ files = <<>> /\ spec = <<>> /\ claims = <<>> /\ pod_ports = <<>>

(* C9: validation runs first and is fail-fast: in both modes no service is
   resolved or folded into the pod spec and no network or volume is converted
   unless every document-level check has passed; in Kubernetes mode a document
   with networks fails with UnsupportedFeature and no service processed. *)
C9_ValidationFirst ==
    /\ ~NothingProcessed => DocumentChecksPass
    /\ ~DocumentChecksPass /\ Done => ~result.ok /\ NothingProcessed
    /\ (Done /\ kube /\ compose.networks # <<>>) =>
          /\ ~result.ok
          /\ result.err.kind = "UnsupportedFeature"
          /\ NothingProcessed

C9_Witness ==
    /\ Failed /\ kube /\ compose.networks # <<>> /\ NumServices >= 1
    /\ compose.include = <<>>
    /\ result.err = Error("networks", None, None)
    /\ NothingProcessed

(* C10, as stated: when a service has no dependency, its container file has
   no unit section; a file has a Unit only when its service has a
   dependency. *)
C10_AsStated ==
    (Succeeded /\ UnitFileMode) =>
        \A i \in 1..NumServices :
            /\ Dependencies(i) = <<>> => result.files[i].unit = NoUnit
            /\ result.files[i].unit.some => Dependencies(i) # <<>>

(* C10, amended: when a service has no dependency, no Unit is created for it
   and its file's unit section is the Unit given to the run, absent when none
   was given; a file has a Unit that was not given to the run only when its
   service has a dependency, and a service with a dependency always has one. *)
C10_UnitOnlyWhenNeeded ==
    (Succeeded /\ UnitFileMode) =>
        \A i \in 1..NumServices :
            /\ Dependencies(i) = <<>> => result.files[i].unit = unit
            /\ (result.files[i].unit.some /\ ~unit.some) => Dependencies(i) # <<>>
            /\ Dependencies(i) # <<>> =>
                  /\ result.files[i].unit.some
                  /\ result.files[i].unit.deps # <<>>

C10_Witness ==
    /\ Succeeded /\ UnitFileMode /\ unit = NoUnit /\ NumServices = 2
    /\ Dependencies(1) = <<>> /\ result.files[1].unit = NoUnit
    /\ Dependencies(2) # <<>> /\ result.files[2].unit.some

\* The mounts of the output whose source was rewritten, as <<service, mount>>.
Rewritten ==
    UNION {{<<i, j>> : j \in {k \in 1..Len(MountsBefore(i)) :
                                  MountsAfter(i)[k] # MountsBefore(i)[k]}} :
           i \in 1..NumServices}

VolumeFiles == {k \in 1..Len(result.files) : result.files[k].kind = "volume"}

(* C11: in a successful unit-file conversion, a mount's source is rewritten
   to N ++ ".volume" only if the output holds a volume file named N, and a
   volume file named N is produced exactly when the top-level volume N is
   compose-managed with a non-empty option set, referenced by a service or
   not; no volume is given two files. *)
C11_LinkedVolumeExists ==
    (Succeeded /\ UnitFileMode) =>
        /\ \A m \in Rewritten :
              LET before == MountsBefore(m[1])[m[2]]
                  after == MountsAfter(m[1])[m[2]]
              IN  /\ before.kind = "NamedVolume"
                  /\ after.source = before.source \o <<".volume">>
                  /\ HasFile("volume", before.source)
        /\ \A i \in 1..NumVolumes :
              HasFile("volume", compose.volumes[i].id)
                  <=> DeclaredWithOptions(compose.volumes[i].id)
        /\ \A k \in VolumeFiles :
              /\ DeclaredWithOptions(result.files[k].name)
              /\ \A l \in VolumeFiles : SameName(k, l) => k = l

C11_Witness ==
    /\ Succeeded /\ UnitFileMode /\ NumServices = 2
    /\ MountsBefore(1) = <<>>
    /\ <<2, 3>> \in Rewritten
    /\ MountsAfter(2)[3].source = <<"data", ".volume">>
    /\ HasFile("volume", data)
    /\ Cardinality(VolumeFiles) = 1

====
